---- MODULE Spec2Model ----
(***************************************************************************)
(* Model of Code/Util/CubemapFilter.py: the CubemapFilter object and the   *)
(* three collaborators it drives (the Image factory, the parent stage and  *)
(* the render targets the stage hands out).  The collaborators record the  *)
(* calls they receive, the filter's fields are the variables _name ..      *)
(* _diff_filter_target.                                                    *)
(***************************************************************************)
EXTENDS Integers, Sequences, FiniteSets, TLC

VARIABLES
    _name,                \* self._name
    _size,                \* self._size
    images,               \* the Image factory: every cube texture created, in order
    _prefilter_map,       \* self._prefilter_map   (index into images)
    _diffuse_map,         \* self._diffuse_map
    _spec_pref_map,       \* self._spec_pref_map
    _specular_map,        \* self._specular_map
    targets,              \* the stage: every render target created, in order
    stage_calls,          \* the stage: every call it received, in order
    _targets_spec,        \* self._targets_spec        (indices into targets)
    _targets_spec_filter, \* self._targets_spec_filter
    _diffuse_target,      \* self._diffuse_target      (NoAttr until create())
    _diff_filter_target,  \* self._diff_filter_target
    raised,               \* what the last call on the filter raised ("" = returned)
    pc,                   \* position inside create(): "idle", "loop", "diffuse"
    mip,                  \* local of _make_specular_targets
    mipsize               \* local of _make_specular_targets

vars == <<_name, _size, images, _prefilter_map, _diffuse_map, _spec_pref_map,
          _specular_map, targets, stage_calls, _targets_spec,
          _targets_spec_filter, _diffuse_target, _diff_filter_target, raised,
          pc, mip, mipsize>>

-----------------------------------------------------------------------------
\* Bounds of the model.
MaxSize == 17
MaxNeg == 2
MaxCreates == 2
MaxSetShaders == 2

Sizes == (0 - MaxNeg) .. MaxSize
Names == {"Cubemap", "Env"}

\* Class constants.
DIFFUSE_CUBEMAP_SIZE == 10
PREFILTER_CUBEMAP_SIZE == 32

\* Value of an attribute __init__ never assigns (reading it raises AttributeError).
NoAttr == 0

-----------------------------------------------------------------------------
\* The Image factory and its textures.

\* Image.create_cube(name, size, T_float, F_r11_g11_b10): a new texture,
\* appended to the factory's list; the texture is known by its index.
Image_create_cube(imgs, tname, tsize) ==
    Append(imgs, [name |-> tname, size |-> tsize, ctype |-> "T_float",
                  format |-> "F_r11_g11_b10", minfilter |-> "default",
                  magfilter |-> "default"])

set_minfilter(imgs, tex, mode) == [imgs EXCEPT ![tex].minfilter = mode]
set_magfilter(imgs, tex, mode) == [imgs EXCEPT ![tex].magfilter = mode]

\* Variant: the two class constants exchanged.
MakeMapsAlloc_sizes_swapped(nm, sz) ==
    LET i1 == Image_create_cube(<<>>, nm \o "IBLPrefDiff", DIFFUSE_CUBEMAP_SIZE)
        i2 == Image_create_cube(i1, nm \o "IBLDiff", PREFILTER_CUBEMAP_SIZE)
        i3 == Image_create_cube(i2, nm \o "IBLPrefSpec", sz)
        i4 == Image_create_cube(i3, nm \o "IBLSpec", sz)
    IN  [images |-> i4, _prefilter_map |-> Len(i1), _diffuse_map |-> Len(i2),
         _spec_pref_map |-> Len(i3), _specular_map |-> Len(i4)]

\* The four create_cube calls of _make_maps, in the order the code makes them.
MakeMapsAlloc(nm, sz) ==
    LET i1 == Image_create_cube(<<>>, nm \o "IBLPrefDiff", PREFILTER_CUBEMAP_SIZE)
        i2 == Image_create_cube(i1, nm \o "IBLDiff", DIFFUSE_CUBEMAP_SIZE)
        i3 == Image_create_cube(i2, nm \o "IBLPrefSpec", sz)
        i4 == Image_create_cube(i3, nm \o "IBLSpec", sz)
    IN  [images |-> i4, _prefilter_map |-> Len(i1), _diffuse_map |-> Len(i2),
         _spec_pref_map |-> Len(i3), _specular_map |-> Len(i4)]

RECURSIVE SetLinear(_, _)
SetLinear(imgs, texs) ==
    IF texs = <<>> THEN imgs
    ELSE SetLinear(set_magfilter(set_minfilter(imgs, Head(texs), "FT_linear"),
                                 Head(texs), "FT_linear"),
                   Tail(texs))

\* _make_maps: allocation, then the filtering modes.
MakeMaps(nm, sz) ==
    LET a  == MakeMapsAlloc(nm, sz)
        f1 == SetLinear(a.images, <<a._diffuse_map, a._specular_map, a._prefilter_map>>)
        f2 == set_minfilter(f1, a._spec_pref_map, "FT_linear_mipmap_linear")
        f3 == set_minfilter(f2, a._specular_map, "FT_linear_mipmap_linear")
    IN  [a EXCEPT !.images = f3]

-----------------------------------------------------------------------------
\* The stage and its render targets.  A target is the list of calls made on
\* it; a call is a record of one shape:
\*   method, name (the input's name or the shader's path), tex (a texture, 0
\*   when the call passes none), flags and ints (remaining positional arguments).
TargetCall(method, nm, tex, flags, ints) ==
    [method |-> method, name |-> nm, tex |-> tex, flags |-> flags, ints |-> ints]

\* target.<method>(...) on target tid of world w.
CallTarget(w, tid, c) ==
    [w EXCEPT !.targets = [@ EXCEPT ![tid].ops = Append(@, c)]]

\* stage._create_target(name): a new target with no call on it yet.
Stage_create_target(w, tname) ==
    [w EXCEPT !.targets = Append(@, [name |-> tname, ops |-> <<>>]),
              !.stage_calls = Append(@, [method |-> "_create_target", arg |-> tname])]

\* stage._load_shader(path): recorded by the stage.
Stage_load_shader(w, path) ==
    [w EXCEPT !.stage_calls = Append(@, [method |-> "_load_shader", arg |-> path])]

\* The shader object the last _load_shader call of w returned.
LastShader(w) == <<Len(w.stage_calls)>>

-----------------------------------------------------------------------------
\* The filter.  World is the filter's fields together with its collaborators;
\* every method is a function from worlds to worlds.
World ==
    [_name |-> _name, _size |-> _size, images |-> images,
     _prefilter_map |-> _prefilter_map, _diffuse_map |-> _diffuse_map,
     _spec_pref_map |-> _spec_pref_map, _specular_map |-> _specular_map,
     targets |-> targets, stage_calls |-> stage_calls,
     _targets_spec |-> _targets_spec,
     _targets_spec_filter |-> _targets_spec_filter,
     _diffuse_target |-> _diffuse_target,
     _diff_filter_target |-> _diff_filter_target,
     raised |-> raised, mip |-> mip, mipsize |-> mipsize]

Becomes(w) ==
    /\ _name' = w._name
    /\ _size' = w._size
    /\ images' = w.images
    /\ _prefilter_map' = w._prefilter_map
    /\ _diffuse_map' = w._diffuse_map
    /\ _spec_pref_map' = w._spec_pref_map
    /\ _specular_map' = w._specular_map
    /\ targets' = w.targets
    /\ stage_calls' = w.stage_calls
    /\ _targets_spec' = w._targets_spec
    /\ _targets_spec_filter' = w._targets_spec_filter
    /\ _diffuse_target' = w._diffuse_target
    /\ _diff_filter_target' = w._diff_filter_target
    /\ raised' = w.raised
    /\ mip' = w.mip
    /\ mipsize' = w.mipsize

\* Variant: the caller is handed the intermediate map to write into.
get_target_cubemap_intermediate == _spec_pref_map

\* The property getters.
get_specular_cubemap == _specular_map
get_diffuse_cubemap == _diffuse_map
get_target_cubemap == _specular_map
get_size == _size

\* Lines 85-87: fresh lists, mip, mipsize = 0, self._size.
SpecularBegin(w) ==
    [w EXCEPT !._targets_spec = <<>>, !._targets_spec_filter = <<>>,
              !.mip = 0, !.mipsize = w._size, !.raised = ""]

\* Variant: the loop runs down to size 0.
LoopGuard_ge_one(w) == w.mipsize >= 1

\* Line 88: the loop condition.
LoopGuard(w) == w.mipsize >= 2

\* Variant: the size is decremented instead of halved.
Halve_decrement(w) == [w EXCEPT !.mipsize = w.mipsize - 1]

\* Variant: the halving is also written back to self._size.
Halve_on_self(w) == [w EXCEPT !.mipsize = w.mipsize \div 2, !._size = w.mipsize \div 2]

\* Line 91.
Halve(w) == [w EXCEPT !.mipsize = w.mipsize \div 2]

\* Variant: every level reads the intermediate map.
DownsampleSource_always_pref(w) == w._spec_pref_map

\* Lines 99-102: the texture the downsample target reads.
DownsampleSource(w) == IF w.mip = 0 THEN w._specular_map ELSE w._spec_pref_map

\* Lines 94-106: the target which downsamples the mipmap.
MakeDownsample(w) ==
    LET w1  == Stage_create_target(w, w._name \o "SpecIBL-" \o ToString(w.mipsize))
        tid == Len(w1.targets)
        w2  == CallTarget(w1, tid, TargetCall("set_size", "", 0, <<>>,
                                              <<w.mipsize * 6, w.mipsize>>))
        w3  == CallTarget(w2, tid, TargetCall("prepare_offscreen_buffer", "", 0, <<>>, <<>>))
        w4  == CallTarget(w3, tid, TargetCall("set_shader_input", "SourceTex",
                                              DownsampleSource(w), <<>>, <<>>))
        w5  == CallTarget(w4, tid, TargetCall("set_shader_input", "DestMipmap",
                                              w._spec_pref_map, <<FALSE, TRUE>>,
                                              <<-1, w.mip + 1, 0>>))
    IN  CallTarget(w5, tid, TargetCall("set_shader_input", "currentMip", 0, <<>>,
                                       <<w.mip>>))

\* Lines 111-118: the target which filters the mipmap.
MakeFilter(w) ==
    LET w1  == Stage_create_target(w, w._name \o "SpecIBLFilter-" \o ToString(w.mipsize))
        tid == Len(w1.targets)
        w2  == CallTarget(w1, tid, TargetCall("set_size", "", 0, <<>>,
                                              <<w.mipsize * 6, w.mipsize>>))
        w3  == CallTarget(w2, tid, TargetCall("prepare_offscreen_buffer", "", 0, <<>>, <<>>))
        w4  == CallTarget(w3, tid, TargetCall("set_shader_input", "currentMip", 0, <<>>,
                                              <<w.mip>>))
        w5  == CallTarget(w4, tid, TargetCall("set_shader_input", "SourceTex",
                                              w._spec_pref_map, <<>>, <<>>))
    IN  CallTarget(w5, tid, TargetCall("set_shader_input", "DestMipmap",
                                       w._specular_map, <<FALSE, TRUE>>,
                                       <<-1, w.mip, 0>>))

\* Lines 89-121: one iteration of the loop body.
SpecularIter(w) ==
    LET w1 == Halve(w)
        w2 == MakeDownsample(w1)
        t  == Len(w2.targets)
        w3 == [w2 EXCEPT !.mip = w2.mip + 1]
        w4 == MakeFilter(w3)
        tf == Len(w4.targets)
    IN  [w4 EXCEPT !._targets_spec = Append(@, t),
                   !._targets_spec_filter = Append(@, tf)]

\* The locals of _make_specular_targets end with the call.
SpecularEnd(w) == [w EXCEPT !.mip = 0, !.mipsize = 0]

RECURSIVE SpecularLoop(_)
SpecularLoop(w) == IF LoopGuard(w) THEN SpecularLoop(SpecularIter(w)) ELSE w

_make_specular_targets(w) == SpecularEnd(SpecularLoop(SpecularBegin(w)))

\* Lines 127-135: the target which integrates the lambert brdf.
MakeDiffuseIntegrate(w) ==
    LET w1  == Stage_create_target(w, w._name \o "DiffuseIBL")
        tid == Len(w1.targets)
        w2  == CallTarget(w1, tid, TargetCall("set_size", "", 0, <<>>,
                   <<PREFILTER_CUBEMAP_SIZE * 6, PREFILTER_CUBEMAP_SIZE>>))
        w3  == CallTarget(w2, tid, TargetCall("add_color_texture", "", 0, <<>>, <<>>))
        w4  == CallTarget(w3, tid, TargetCall("prepare_offscreen_buffer", "", 0, <<>>, <<>>))
        w5  == CallTarget(w4, tid, TargetCall("set_shader_input", "SourceCubemap",
                                              w._specular_map, <<>>, <<>>))
        w6  == CallTarget(w5, tid, TargetCall("set_shader_input", "DestCubemap",
                                              w._prefilter_map, <<>>, <<>>))
        w7  == CallTarget(w6, tid, TargetCall("set_shader_input", "cubeSize", 0, <<>>,
                                              <<PREFILTER_CUBEMAP_SIZE>>))
    IN  [w7 EXCEPT !._diffuse_target = tid]

\* Variant: the filter target reads the specular map, not the prefilter map.
MakeDiffuseFilter_reads_specular(w) ==
    LET w1  == Stage_create_target(w, w._name \o "DiffPrefIBL")
        tid == Len(w1.targets)
        w2  == CallTarget(w1, tid, TargetCall("set_size", "", 0, <<>>,
                   <<DIFFUSE_CUBEMAP_SIZE * 6, DIFFUSE_CUBEMAP_SIZE>>))
        w3  == CallTarget(w2, tid, TargetCall("add_color_texture", "", 0, <<>>, <<>>))
        w4  == CallTarget(w3, tid, TargetCall("prepare_offscreen_buffer", "", 0, <<>>, <<>>))
        w5  == CallTarget(w4, tid, TargetCall("set_shader_input", "SourceCubemap",
                                              w._specular_map, <<>>, <<>>))
        w6  == CallTarget(w5, tid, TargetCall("set_shader_input", "DestCubemap",
                                              w._diffuse_map, <<>>, <<>>))
        w7  == CallTarget(w6, tid, TargetCall("set_shader_input", "cubeSize", 0, <<>>,
                                              <<DIFFUSE_CUBEMAP_SIZE>>))
    IN  [w7 EXCEPT !._diff_filter_target = tid]

\* Lines 139-147: the target which removes the noise of the previous one.
MakeDiffuseFilter(w) ==
    LET w1  == Stage_create_target(w, w._name \o "DiffPrefIBL")
        tid == Len(w1.targets)
        w2  == CallTarget(w1, tid, TargetCall("set_size", "", 0, <<>>,
                   <<DIFFUSE_CUBEMAP_SIZE * 6, DIFFUSE_CUBEMAP_SIZE>>))
        w3  == CallTarget(w2, tid, TargetCall("add_color_texture", "", 0, <<>>, <<>>))
        w4  == CallTarget(w3, tid, TargetCall("prepare_offscreen_buffer", "", 0, <<>>, <<>>))
        w5  == CallTarget(w4, tid, TargetCall("set_shader_input", "SourceCubemap",
                                              w._prefilter_map, <<>>, <<>>))
        w6  == CallTarget(w5, tid, TargetCall("set_shader_input", "DestCubemap",
                                              w._diffuse_map, <<>>, <<>>))
        w7  == CallTarget(w6, tid, TargetCall("set_shader_input", "cubeSize", 0, <<>>,
                                              <<DIFFUSE_CUBEMAP_SIZE>>))
    IN  [w7 EXCEPT !._diff_filter_target = tid]

_make_diffuse_target(w) == MakeDiffuseFilter(MakeDiffuseIntegrate(w))

\* Variant: the diffuse targets are made first.
create_diffuse_first(w) == _make_specular_targets(_make_diffuse_target(w))

\* create().
create(w) == _make_diffuse_target(_make_specular_targets(w))

\* target.set_shader(shader) on every target of the list ts.
RECURSIVE SetShaderAll(_, _, _, _)
SetShaderAll(w, ts, path, shader) ==
    IF ts = <<>> THEN w
    ELSE SetShaderAll(CallTarget(w, Head(ts), TargetCall("set_shader", path, 0, <<>>, shader)),
                      Tail(ts), path, shader)

\* self.<target>.set_shader(self._stage._load_shader(path)): the target
\* attribute is read first, then the shader is loaded, then it is attached.
LoadAndSet(w, ts, path) ==
    LET w1 == Stage_load_shader(w, path)
    IN  SetShaderAll(w1, ts, path, LastShader(w1))

\* Variant: the specular filter targets are never given their shader.
SetShadersBody_no_filter_loop(w) ==
    LET w1 == LoadAndSet(w, <<w._diffuse_target>>, "Stages/IBLCubemapDiffuse.frag")
        w2 == LoadAndSet(w1, <<w._diff_filter_target>>, "Stages/IBLCubemapDiffFilter.frag")
        w3 == LoadAndSet(w2, w._targets_spec, "Stages/IBLCubemapSpecular.frag")
    IN  LoadAndSet(w3, <<>>, "Stages/IBLCubemapSpecularFilter.frag")

\* Lines 151-162, once self._diffuse_target is known to exist.
SetShadersBody(w) ==
    LET w1 == LoadAndSet(w, <<w._diffuse_target>>, "Stages/IBLCubemapDiffuse.frag")
        w2 == LoadAndSet(w1, <<w._diff_filter_target>>, "Stages/IBLCubemapDiffFilter.frag")
        w3 == LoadAndSet(w2, w._targets_spec, "Stages/IBLCubemapSpecular.frag")
    IN  LoadAndSet(w3, w._targets_spec_filter, "Stages/IBLCubemapSpecularFilter.frag")

\* Variant: the shader is loaded before the target attribute is read.
set_shaders_load_first(w) ==
    IF w._diffuse_target = NoAttr
    THEN [Stage_load_shader(w, "Stages/IBLCubemapDiffuse.frag")
            EXCEPT !.raised = "AttributeError"]
    ELSE [SetShadersBody(w) EXCEPT !.raised = ""]

\* set_shaders(): reading self._diffuse_target before create() ever ran
\* raises AttributeError, before the argument of set_shader is evaluated.
set_shaders(w) ==
    IF w._diffuse_target = NoAttr
    THEN [w EXCEPT !.raised = "AttributeError"]
    ELSE [SetShadersBody(w) EXCEPT !.raised = ""]

-----------------------------------------------------------------------------
NumCalls(method) ==
    Cardinality({i \in 1 .. Len(stage_calls) : stage_calls[i].method = method})

\* Number of create() calls begun, and of set_shaders() calls completed.
NumCreates == Cardinality({i \in 1 .. Len(targets) : targets[i].name = _name \o "DiffuseIBL"})
NumSetShaders == NumCalls("_load_shader") \div 4

Init ==
    /\ _name \in Names
    /\ _size \in Sizes
    /\ LET m == MakeMaps(_name, _size)
       IN  /\ images = m.images
           /\ _prefilter_map = m._prefilter_map
           /\ _diffuse_map = m._diffuse_map
           /\ _spec_pref_map = m._spec_pref_map
           /\ _specular_map = m._specular_map
    /\ targets = <<>>
    /\ stage_calls = <<>>
    /\ _targets_spec = <<>>
    /\ _targets_spec_filter = <<>>
    /\ _diffuse_target = NoAttr
    /\ _diff_filter_target = NoAttr
    /\ raised = ""
    /\ pc = "idle"
    /\ mip = 0
    /\ mipsize = 0

\* create(), as one step.
Create ==
    /\ pc = "idle"
    /\ NumCreates < MaxCreates
    /\ \E w \in {create(World)} : Becomes(w)
    /\ pc' = "idle"

\* set_shaders(), as one step.
SetShaders ==
    /\ pc = "idle"
    /\ NumSetShaders < MaxSetShaders
    /\ \E w \in {set_shaders(World)} : Becomes(w)
    /\ pc' = "idle"

Next == Create \/ SetShaders

Spec == Init /\ [][Next]_vars

\* create() statement by statement.
CreateBegin ==
    /\ pc = "idle"
    /\ NumCreates < MaxCreates
    /\ \E w \in {SpecularBegin(World)} : Becomes(w)
    /\ pc' = "loop"

LoopIter ==
    /\ pc = "loop"
    /\ LoopGuard(World)
    /\ \E w \in {SpecularIter(World)} : Becomes(w)
    /\ pc' = "loop"

LoopExit ==
    /\ pc = "loop"
    /\ ~LoopGuard(World)
    /\ \E w \in {SpecularEnd(World)} : Becomes(w)
    /\ pc' = "diffuse"

MakeDiffuse ==
    /\ pc = "diffuse"
    /\ \E w \in {_make_diffuse_target(World)} : Becomes(w)
    /\ pc' = "idle"

NextSteps == CreateBegin \/ LoopIter \/ LoopExit \/ MakeDiffuse \/ SetShaders

\* A call, once begun, keeps executing.
SpecSteps ==
    /\ Init
    /\ [][NextSteps]_vars
    /\ WF_vars(LoopIter) /\ WF_vars(LoopExit) /\ WF_vars(MakeDiffuse)
-----------------------------------------------------------------------------
\* Observations of the recorded calls, used by the properties below.

Range(f) == {f[i] : i \in DOMAIN f}

\* The calls of one method (and input name) made on target record tg.
CallsOn(tg, method, nm) ==
    SelectSeq(tg.ops, LAMBDA c : c.method = method /\ c.name = nm)

Positions(tg, method) == {i \in 1 .. Len(tg.ops) : tg.ops[i].method = method}

\* <<width, height>> of a target that received exactly one set_size.
SizeOf(tg) == CallsOn(tg, "set_size", "")[1].ints

\* The shader input nm of a target that received it exactly once.
HasInput(tg, nm) == Len(CallsOn(tg, "set_shader_input", nm)) = 1
InputOf(tg, nm) == CallsOn(tg, "set_shader_input", nm)[1]
InputNames(tg) == {tg.ops[i].name : i \in Positions(tg, "set_shader_input")}

\* Target tg writes mip level lvl of texture tex.
WritesLevel(tg, tex, lvl) ==
    \E i \in Positions(tg, "set_shader_input") :
        /\ tg.ops[i].tex = tex
        /\ \/ tg.ops[i].name = "DestMipmap" /\ tg.ops[i].ints[2] = lvl
           \/ tg.ops[i].name = "DestCubemap" /\ lvl = 0

\* Target tg writes some level of texture tex.
WritesTex(tg, tex) ==
    \E i \in Positions(tg, "set_shader_input") :
        tg.ops[i].tex = tex /\ tg.ops[i].name \in {"DestMipmap", "DestCubemap"}

\* Path of the shader attached last ("" when none was attached).
ShaderOf(tg) ==
    LET ss == SelectSeq(tg.ops, LAMBDA c : c.method = "set_shader")
    IN  IF ss = <<>> THEN "" ELSE ss[Len(ss)].name

IsPow2(n) == \E k \in 1 .. n : 2 ^ k = n
FloorLog2(n) == CHOOSE k \in 0 .. n : 2 ^ k <= n /\ n < 2 ^ (k + 1)
NumLevels(n) == IF n < 2 THEN 0 ELSE FloorLog2(n)

\* A create() call has returned and none is running.
Created == pc = "idle" /\ _diffuse_target # NoAttr

\* The last thing the stage saw is the end of a set_shaders() call.
SetShadersDone ==
    /\ pc = "idle"
    /\ stage_calls # <<>>
    /\ stage_calls[Len(stage_calls)].method = "_load_shader"
    /\ raised = ""

\* Names of the targets the stage was asked for, in order.
CreatedNames ==
    LET cs == SelectSeq(stage_calls, LAMBDA c : c.method = "_create_target")
    IN  [i \in 1 .. Len(cs) |-> cs[i].arg]

\* The names one create() asks for, in closed form.
ExpectedNames(nm, sz) ==
    LET k == NumLevels(sz)
    IN  [j \in 1 .. 2 * k + 2 |->
            IF j = 2 * k + 1 THEN nm \o "DiffuseIBL"
            ELSE IF j = 2 * k + 2 THEN nm \o "DiffPrefIBL"
            ELSE IF j % 2 = 1
                 THEN nm \o "SpecIBL-" \o ToString(sz \div (2 ^ ((j + 1) \div 2)))
                 ELSE nm \o "SpecIBLFilter-" \o ToString(sz \div (2 ^ (j \div 2)))]

\* The shader a target should carry, told by the target's name.
ShaderForName(tname) ==
    IF tname = _name \o "DiffuseIBL" THEN "Stages/IBLCubemapDiffuse.frag"
    ELSE IF tname = _name \o "DiffPrefIBL" THEN "Stages/IBLCubemapDiffFilter.frag"
    ELSE IF \E n \in 0 .. MaxSize : tname = _name \o "SpecIBL-" \o ToString(n)
         THEN "Stages/IBLCubemapSpecular.frag"
         ELSE "Stages/IBLCubemapSpecularFilter.frag"

-----------------------------------------------------------------------------
\* C1: the constructor allocates exactly four cube textures, in the order
\* IBLPrefDiff (32), IBLDiff (10), IBLPrefSpec (size), IBLSpec (size); create()
\* and set_shaders() allocate none, so the filter always owns exactly these.
C1_FourTextures ==
    /\ Len(images) = 4
    /\ images[1].name = _name \o "IBLPrefDiff" /\ images[1].size = 32
    /\ images[2].name = _name \o "IBLDiff" /\ images[2].size = 10
    /\ images[3].name = _name \o "IBLPrefSpec" /\ images[3].size = _size
    /\ images[4].name = _name \o "IBLSpec" /\ images[4].size = _size
    /\ <<_prefilter_map, _diffuse_map, _spec_pref_map, _specular_map>> = <<1, 2, 3, 4>>

C1_Witness == Created /\ SetShadersDone /\ Len(images) = 4 /\ _size = 16

\* C2: for size = 2^k (k >= 1) one create() builds k pairs; both lists have
\* length k and pair i (0-based) has both targets sized 6*size/2^(i+1) by
\* size/2^(i+1), from size/2 down to 1.
C2_PowerOfTwoChain ==
    (Created /\ IsPow2(_size)) =>
        LET k == CHOOSE j \in 1 .. _size : 2 ^ j = _size
        IN  /\ Len(_targets_spec) = k
            /\ Len(_targets_spec_filter) = k
            /\ \A i \in 0 .. k - 1 :
                 LET m == _size \div (2 ^ (i + 1))
                 IN  /\ m * (2 ^ (i + 1)) = _size
                     /\ SizeOf(targets[_targets_spec[i + 1]]) = <<6 * m, m>>
                     /\ SizeOf(targets[_targets_spec_filter[i + 1]]) = <<6 * m, m>>
            /\ SizeOf(targets[_targets_spec[1]])[2] * 2 = _size
            /\ SizeOf(targets[_targets_spec[k]])[2] = 1
            /\ Len(targets) = NumCreates * (2 * k + 2)

C2_Witness == Created /\ _size = 16 /\ Len(_targets_spec) = 4

\* C3: every create() builds exactly two diffuse targets whatever the size:
\* name+"DiffuseIBL", 192x32, specular map -> prefilter map, cubeSize 32, then
\* name+"DiffPrefIBL", 60x10, prefilter map -> diffuse map, cubeSize 10; no
\* other target of the call writes the diffuse map.
C3_DiffuseTargets ==
    [][Len(targets') > Len(targets) =>
        LET n   == Len(targets')
            new == Len(targets) + 1 .. n
            d   == targets'[n - 1]
            f   == targets'[n]
        IN  /\ {t \in new : t \notin Range(_targets_spec') \cup Range(_targets_spec_filter')}
                 = {n - 1, n}
            /\ _diffuse_target' = n - 1 /\ _diff_filter_target' = n
            /\ d.name = _name \o "DiffuseIBL" /\ SizeOf(d) = <<192, 32>>
            /\ InputNames(d) = {"SourceCubemap", "DestCubemap", "cubeSize"}
            /\ HasInput(d, "SourceCubemap") /\ HasInput(d, "DestCubemap") /\ HasInput(d, "cubeSize")
            /\ InputOf(d, "SourceCubemap").tex = get_specular_cubemap
            /\ InputOf(d, "DestCubemap").tex = _prefilter_map
            /\ InputOf(d, "cubeSize").ints = <<32>>
            /\ f.name = _name \o "DiffPrefIBL" /\ SizeOf(f) = <<60, 10>>
            /\ InputNames(f) = {"SourceCubemap", "DestCubemap", "cubeSize"}
            /\ HasInput(f, "SourceCubemap") /\ HasInput(f, "DestCubemap") /\ HasInput(f, "cubeSize")
            /\ InputOf(f, "SourceCubemap").tex = _prefilter_map
            /\ InputOf(f, "DestCubemap").tex = get_diffuse_cubemap
            /\ InputOf(f, "cubeSize").ints = <<10>>
            /\ \A t \in new : WritesTex(targets'[t], get_diffuse_cubemap) <=> t = n
    ]_vars

C3_Witness ==
    /\ Created /\ NumCreates = 2 /\ _size = 8
    /\ targets[_diff_filter_target].name = _name \o "DiffPrefIBL"
    /\ WritesTex(targets[_diff_filter_target], _diffuse_map)

\* C4 (as stated): once set_shaders() has completed, every target ever created
\* on the stage, by any earlier create(), carries the shader of its kind.
C4_AllTargetsEverCreated ==
    SetShadersDone =>
        \A t \in 1 .. Len(targets) : ShaderOf(targets[t]) = ShaderForName(targets[t].name)

\* C4 (amended): once set_shaders() has completed, every target created by the
\* most recent create() carries the shader of its kind.
C4_TargetsOfLastCreate ==
    SetShadersDone =>
        /\ ShaderOf(targets[_diffuse_target]) = "Stages/IBLCubemapDiffuse.frag"
        /\ ShaderOf(targets[_diff_filter_target]) = "Stages/IBLCubemapDiffFilter.frag"
        /\ \A i \in 1 .. Len(_targets_spec) :
             ShaderOf(targets[_targets_spec[i]]) = "Stages/IBLCubemapSpecular.frag"
        /\ \A i \in 1 .. Len(_targets_spec_filter) :
             ShaderOf(targets[_targets_spec_filter[i]]) = "Stages/IBLCubemapSpecularFilter.frag"
        /\ \A t \in Len(targets) - 2 * Len(_targets_spec) - 1 .. Len(targets) :
             ShaderOf(targets[t]) = ShaderForName(targets[t].name)

C4_Witness ==
    /\ SetShadersDone /\ NumCreates = 2 /\ Len(_targets_spec_filter) = 3
    /\ ShaderOf(targets[1]) = ""
    /\ ShaderOf(targets[Len(targets)]) # ""

\* C5: create() asks the stage for its targets in the order downsample_0,
\* filter_0, ..., downsample_{k-1}, filter_{k-1}, diffuse, diffuse filter, the
\* names fixed by name and size; on every target set_size comes before
\* prepare_offscreen_buffer, which comes before every set_shader_input.
C5_CallOrder ==
    pc = "idle" =>
        LET exp == ExpectedNames(_name, _size)
        IN  /\ Len(CreatedNames) = NumCreates * Len(exp)
            /\ Len(targets) = Len(CreatedNames)
            /\ \A j \in 1 .. Len(CreatedNames) :
                 /\ CreatedNames[j] = exp[((j - 1) % Len(exp)) + 1]
                 /\ targets[j].name = CreatedNames[j]
            /\ Len(_targets_spec) = Len(_targets_spec_filter)
            /\ \A i \in 1 .. Len(_targets_spec) :
                 /\ _targets_spec[i] < _targets_spec_filter[i]
                 /\ _targets_spec_filter[i] < _diffuse_target
                 /\ i > 1 => _targets_spec_filter[i - 1] < _targets_spec[i]
            /\ Created => _diffuse_target < _diff_filter_target
            /\ \A t \in 1 .. Len(targets) :
                 /\ Cardinality(Positions(targets[t], "set_size")) = 1
                 /\ Cardinality(Positions(targets[t], "prepare_offscreen_buffer")) = 1
                 /\ \A a \in Positions(targets[t], "set_size") :
                    \A b \in Positions(targets[t], "prepare_offscreen_buffer") :
                    \A c \in Positions(targets[t], "set_shader_input") :
                        a < b /\ b < c

C5_Witness ==
    /\ Created /\ _size = 8
    /\ CreatedNames = <<_name \o "SpecIBL-4", _name \o "SpecIBLFilter-4",
                        _name \o "SpecIBL-2", _name \o "SpecIBLFilter-2",
                        _name \o "SpecIBL-1", _name \o "SpecIBLFilter-1",
                        _name \o "DiffuseIBL", _name \o "DiffPrefIBL">>

\* C6: target_cubemap is the texture specular_cubemap returns, and
\* diffuse_cubemap is none of the specular, target, prefilter and intermediate
\* textures.
C6_TargetIsSpecular ==
    /\ get_target_cubemap = get_specular_cubemap
    /\ get_diffuse_cubemap \notin
          {get_specular_cubemap, get_target_cubemap, _prefilter_map, _spec_pref_map}

C6_Witness ==
    /\ Created /\ SetShadersDone
    /\ get_target_cubemap = 4 /\ get_diffuse_cubemap = 2

\* C7: no step of create() or set_shaders() changes what get_size,
\* specular_cubemap, diffuse_cubemap and target_cubemap return, nor the
\* textures themselves.
C7_Frame ==
    [][/\ get_size' = get_size
       /\ get_specular_cubemap' = get_specular_cubemap
       /\ get_diffuse_cubemap' = get_diffuse_cubemap
       /\ get_target_cubemap' = get_target_cubemap
       /\ _prefilter_map' = _prefilter_map
       /\ _spec_pref_map' = _spec_pref_map
       /\ images' = images]_vars

C7_Witness ==
    /\ Created /\ SetShadersDone /\ NumCreates = 2 /\ NumSetShaders = 2
    /\ get_size = 16 /\ images[get_specular_cubemap].size = 16

\* C8: in the chain of one create(), pair i (0-based) is wired so that the
\* downsample target has currentMip = i, reads the specular map when i = 0 and
\* the intermediate map otherwise, and writes level i+1 of the intermediate
\* map; the filter target has currentMip = i+1, reads the intermediate map and
\* writes level i+1 of the specular map.  So each level 1..k of the specular
\* map has exactly one writer in the chain and level 0 of the specular and of
\* the intermediate map has no writer at all.
C8_Wiring ==
    Created =>
        LET k == Len(_targets_spec)
            chain == Range(_targets_spec) \cup Range(_targets_spec_filter)
                        \cup {_diffuse_target, _diff_filter_target}
        IN  /\ IsPow2(_size) => 2 ^ k = _size
            /\ Len(_targets_spec_filter) = k
            /\ \A i \in 0 .. k - 1 :
                 LET dn == targets[_targets_spec[i + 1]]
                     fl == targets[_targets_spec_filter[i + 1]]
                 IN  /\ InputNames(dn) = {"SourceTex", "DestMipmap", "currentMip"}
                     /\ HasInput(dn, "SourceTex") /\ HasInput(dn, "DestMipmap")
                     /\ HasInput(dn, "currentMip")
                     /\ InputOf(dn, "currentMip").ints = <<i>>
                     /\ InputOf(dn, "SourceTex").tex =
                          (IF i = 0 THEN get_specular_cubemap ELSE _spec_pref_map)
                     /\ InputOf(dn, "DestMipmap").tex = _spec_pref_map
                     /\ InputOf(dn, "DestMipmap").ints[2] = i + 1
                     /\ InputNames(fl) = {"SourceTex", "DestMipmap", "currentMip"}
                     /\ HasInput(fl, "SourceTex") /\ HasInput(fl, "DestMipmap")
                     /\ HasInput(fl, "currentMip")
                     /\ InputOf(fl, "currentMip").ints = <<i + 1>>
                     /\ InputOf(fl, "SourceTex").tex = _spec_pref_map
                     /\ InputOf(fl, "DestMipmap").tex = get_specular_cubemap
                     /\ InputOf(fl, "DestMipmap").ints[2] = i + 1
            /\ \A lvl \in 1 .. k :
                 {t \in chain : WritesLevel(targets[t], get_specular_cubemap, lvl)}
                    = {_targets_spec_filter[lvl]}
            /\ \A t \in 1 .. Len(targets) :
                 /\ ~WritesLevel(targets[t], get_specular_cubemap, 0)
                 /\ ~WritesLevel(targets[t], _spec_pref_map, 0)

C8_Witness ==
    /\ Created /\ _size = 8 /\ Len(_targets_spec) = 3
    /\ InputOf(targets[_targets_spec[1]], "SourceTex").tex = _specular_map
    /\ InputOf(targets[_targets_spec[3]], "SourceTex").tex = _spec_pref_map
    /\ WritesLevel(targets[_targets_spec_filter[3]], _specular_map, 3)

\* C9: _make_specular_targets terminates for every integer size; for size < 2
\* it creates no specular target, for size >= 2 exactly floor(log2(size))
\* pairs sized by the successive floor-halvings of size, the last of size 1;
\* no target ever has size 0.
C9_ChainShape ==
    /\ \A t \in 1 .. Len(targets) : SizeOf(targets[t])[2] >= 1
    /\ pc = "diffuse" =>
         /\ Len(_targets_spec) = NumLevels(_size)
         /\ Len(_targets_spec_filter) = NumLevels(_size)
         /\ _size < 2 => _targets_spec = <<>> /\ _targets_spec_filter = <<>>
         /\ \A i \in 1 .. Len(_targets_spec) :
              /\ SizeOf(targets[_targets_spec[i]]) =
                    <<6 * (_size \div (2 ^ i)), _size \div (2 ^ i)>>
              /\ SizeOf(targets[_targets_spec_filter[i]]) =
                    SizeOf(targets[_targets_spec[i]])
              /\ SizeOf(targets[_targets_spec[i]])[2] =
                    (IF i = 1 THEN _size
                     ELSE SizeOf(targets[_targets_spec[i - 1]])[2]) \div 2
         /\ _size >= 2 =>
              SizeOf(targets[_targets_spec[Len(_targets_spec)]])[2] = 1

\* C9: the chain has the shape above in every state, and the loop, once
\* entered, is always left.
C9_Terminates ==
    /\ []C9_ChainShape
    /\ (pc = "loop") ~> (pc = "diffuse")

C9_Witness ==
    /\ pc = "diffuse" /\ _size = 13 /\ Len(_targets_spec) = 3
    /\ SizeOf(targets[_targets_spec[1]])[2] = 6
    /\ SizeOf(targets[_targets_spec[2]])[2] = 3

\* C10: set_shaders() before any create() raises before a shader is loaded or
\* attached and changes nothing of the filter, its textures or the stage;
\* set_shaders() after a create() succeeds, whatever failed before.
C10_SetShadersBeforeCreate ==
    [][SetShaders =>
        IF _diffuse_target = NoAttr
        THEN /\ raised' = "AttributeError"
             /\ stage_calls' = stage_calls
             /\ targets' = targets
             /\ images' = images
             /\ get_size' = get_size
             /\ <<_prefilter_map, _diffuse_map, _spec_pref_map, _specular_map>>'
                  = <<_prefilter_map, _diffuse_map, _spec_pref_map, _specular_map>>
        ELSE /\ raised' = ""
             /\ Len(stage_calls') = Len(stage_calls) + 4
             /\ \A t \in Range(_targets_spec) \cup Range(_targets_spec_filter)
                           \cup {_diffuse_target, _diff_filter_target} :
                  ShaderOf(targets'[t]) # ""
    ]_vars

C10_Witness ==
    /\ raised = "AttributeError"
    /\ _diffuse_target = NoAttr
    /\ stage_calls = <<>> /\ targets = <<>>
====
